---------------------------- MODULE Spec2Model ----------------------------
(***************************************************************************)
(* The DevRel publisher's human-in-the-loop protocol.                      *)
(*                                                                         *)
(* src/src/app/page.tsx is the client: the useCoAgent document `state`,    *)
(* and four useCopilotAction gates whose renderAndWaitForResponse forms    *)
(* read `state`, write it with setState({...state, ...}) and answer the    *)
(* agent with respond(value).  The client half of the model (the Edit*,    *)
(* Submit*, Click* actions, renderStatus, StateRender) is translated from  *)
(* that file and from src/unnamed/part_001.                                *)
(*                                                                         *)
(* The agent (the repository's Python package) is not among the sources;   *)
(* its half (the Agent* actions, the stream toClient, Abort) is modelled   *)
(* from spec.md sections 4.1, 4.3, 4.4, 4.5 and 5.                         *)
(*                                                                         *)
(* Rendering is taken as React renders it: the handlers of a form close    *)
(* over the `state`, `status` and `respond` of the latest render, and a    *)
(* render follows every change of them, so a handler reads the current     *)
(* client document and the current status of its gate instance.  respond   *)
(* is passed to a renderer only while its instance is "executing"; the     *)
(* handlers test it (respond && respond(..)).                              *)
(***************************************************************************)
EXTENDS Integers, Sequences, FiniteSets, TLC

VARIABLES
    state,       \* the client's document: useCoAgent's `state`
    agentState,  \* the agent's document
    toClient,    \* events the agent has emitted and the client not yet applied
    gates,       \* the gate instances the client has rendered, oldest first
    response,    \* the respond(value) on its way to the agent, or NoResponse
    pc,          \* the sequencer's stage
    suspended,   \* whether the sequencer is suspended at a gate
    edits        \* the human's input events that answered no gate, counted

vars == <<state, agentState, toClient, gates, response, pc, suspended, edits>>

----------------------------------------------------------------------------
(* Bounds of the model *)

\* gate instances opened in one session
MaxInstances == 5
\* events in flight from the agent to the client
MaxInflight == 2
\* input events of the human, other than the answers to the gates
MaxEdits == 3

----------------------------------------------------------------------------
(* Values *)

NULL == "null"

\* what the human can type into the repository input
RepoUrls == {"", "https://github.com/acme/widget", "https://github.com/acme/gadget"}
\* what the human can pick in the date input
StartDates == {"", "2024-01-01"}
\* the topics the analysis can propose (a Topic is identified by its title)
TopicLists == {<<"T0">>, <<"T1", "T0">>}
\* the <option> values of the channel select (two of the four, and the empty one)
Channels == {"", "blog", "twitter"}
\* the <option> values of the type select
Types == {"", "blog_post", "code_example", "social_media"}
\* what the human can type into title, summary and content
Texts == {"", "text"}

GateNames == {"set_github_repo", "set_date_range", "select_topic", "confirm_content"}

\* useCoAgent's initialState; status, error and copilotkit.metadata.confirmed
\* are absent from it, which reads as falsy: "" and FALSE here.
InitialState ==
    [repo_url |-> "",
     start_date |-> "",
     topics |-> <<>>,
     selected_topic |-> NULL,
     content_drafts |-> [blog_post |-> "", code_example |-> "", social_media |-> ""],
     content_record |-> [channel |-> "", title |-> "", summary |-> "",
                         content |-> "", type |-> ""],
     status |-> "",
     error |-> "",
     confirmed |-> FALSE]

NoResponse == [inst |-> 0, value |-> NULL, topic_index |-> -1, doc |-> InitialState]

Init ==
    /\ state = InitialState
    /\ agentState = InitialState
    /\ toClient = <<>>
    /\ gates = <<>>
    /\ response = NoResponse
    /\ pc = "set_github_repo"
    /\ suspended = FALSE
    /\ edits = 0

----------------------------------------------------------------------------
(* The gate instances as a renderer sees them *)

\* a form of action `name` is in the chat: its inputs and cards take events
\* whatever the status of the instance (only the buttons are ever disabled)
IsInstance(i, name) == i \in DOMAIN gates /\ gates[i].name = name

\* mutant of ButtonEnabled: the buttons carry no disabled attribute
ButtonNeverDisabled(i) == TRUE

\* disabled={status !== "executing"}: a disabled button fires no click
ButtonEnabled(i) == gates[i].status = "executing"

\* one more input event that answers no gate
Typed == edits < MaxEdits /\ edits' = edits + 1

\* the renderer is handed respond only while its instance is executing
RespondDefined(i) == gates[i].status = "executing"

\* respond(value) of instance i: the instance is resolved and the value
\* travels to the agent together with the client's document
Resolve(i, value, topic_index) ==
    /\ gates' = [gates EXCEPT ![i] = [@ EXCEPT !.status = "complete",
                                               !.value = value,
                                               !.topic_index = topic_index,
                                               !.responds = @ + 1]]
    /\ response' = [inst |-> i, value |-> value, topic_index |-> topic_index,
                    doc |-> state']

\* mutant of Respond: the handler calls respond without testing it
RespondUnguarded(i, value, topic_index) == Resolve(i, value, topic_index)

\* respond && respond(value)
Respond(i, value, topic_index) ==
    IF RespondDefined(i)
    THEN Resolve(i, value, topic_index)
    ELSE UNCHANGED <<gates, response>>

----------------------------------------------------------------------------
(* set_github_repo *)

\* onChange: setState({ ...state, repo_url: e.target.value })
EditRepoUrl ==
    \E i \in DOMAIN gates, v \in RepoUrls :
        /\ IsInstance(i, "set_github_repo")
        /\ state' = [state EXCEPT !.repo_url = v]
        /\ Typed
        /\ UNCHANGED <<agentState, toClient, gates, response, pc, suspended>>

\* mutant of SubmitRepo: the button answers with the action's argument,
\* which the agent leaves empty, instead of the document's repo_url
SubmitRepoArgs ==
    \E i \in DOMAIN gates :
        /\ IsInstance(i, "set_github_repo")
        /\ ButtonEnabled(i)
        /\ state' = state
        /\ Respond(i, "", -1)
        /\ UNCHANGED <<agentState, toClient, pc, suspended, edits>>

\* Submit onClick: respond && respond(state?.repo_url)
SubmitRepoAt(i) ==
    /\ IsInstance(i, "set_github_repo")
    /\ ButtonEnabled(i)
    /\ state' = state
    /\ Respond(i, state.repo_url, -1)
    /\ UNCHANGED <<agentState, toClient, pc, suspended, edits>>

SubmitRepo == \E i \in DOMAIN gates : SubmitRepoAt(i)

----------------------------------------------------------------------------
(* set_date_range *)

\* onChange: setState({ ...state, start_date: e.target.value })
EditStartDate ==
    \E i \in DOMAIN gates, v \in StartDates :
        /\ IsInstance(i, "set_date_range")
        /\ state' = [state EXCEPT !.start_date = v]
        /\ Typed
        /\ UNCHANGED <<agentState, toClient, gates, response, pc, suspended>>

\* Submit onClick: respond && respond(state?.start_date)
SubmitDateAt(i) ==
    /\ IsInstance(i, "set_date_range")
    /\ ButtonEnabled(i)
    /\ state' = state
    /\ Respond(i, state.start_date, -1)
    /\ UNCHANGED <<agentState, toClient, pc, suspended, edits>>

SubmitDate == \E i \in DOMAIN gates : SubmitDateAt(i)

----------------------------------------------------------------------------
(* select_topic *)

\* state.topics.map((topic, idx) => ...): the card of index idx (from 0)
\* shows the idx-th topic of the document
\* mutant of TopicAt: the card shows a topic of a list kept from before
TopicAtCached(doc, idx) == <<"T1", "T0">>[idx + 1]

TopicAt(doc, idx) == doc.topics[idx + 1]

RenderedIndexes == 0 .. (Len(state.topics) - 1)

\* mutant of ClickTopicAt: the card answers with its position counted from 1
ClickTopicAtOneBased(i, idx) ==
    /\ IsInstance(i, "select_topic")
    /\ state' = [state EXCEPT !.selected_topic = TopicAt(state, idx)]
    /\ Respond(i, NULL, idx + 1)
    /\ IF RespondDefined(i) THEN edits' = edits ELSE Typed
    /\ UNCHANGED <<agentState, toClient, pc, suspended>>

\* mutant of ClickTopicAt: every card writes the first topic of the list
ClickTopicAtWritesFirst(i, idx) ==
    /\ IsInstance(i, "select_topic")
    /\ state' = [state EXCEPT !.selected_topic = TopicAt(state, 0)]
    /\ Respond(i, NULL, idx)
    /\ IF RespondDefined(i) THEN edits' = edits ELSE Typed
    /\ UNCHANGED <<agentState, toClient, pc, suspended>>

\* card onClick: const newState = { ...state, selected_topic: topic };
\* setState(newState); respond && respond(idx).  The card is a div: it
\* has no disabled state and takes clicks whatever the instance's status.
ClickTopicAt(i, idx) ==
    /\ IsInstance(i, "select_topic")
    /\ state' = [state EXCEPT !.selected_topic = TopicAt(state, idx)]
    /\ Respond(i, NULL, idx)
    /\ IF RespondDefined(i) THEN edits' = edits ELSE Typed
    /\ UNCHANGED <<agentState, toClient, pc, suspended>>

ClickTopic ==
    \E i \in DOMAIN gates, idx \in RenderedIndexes : ClickTopicAt(i, idx)

----------------------------------------------------------------------------
(* confirm_content *)

\* onChange of the channel select:
\* setState({ ...state, content_record: { ...state.content_record, channel } })
EditChannel ==
    \E i \in DOMAIN gates, v \in Channels :
        /\ IsInstance(i, "confirm_content")
        /\ state' = [state EXCEPT !.content_record.channel = v]
        /\ Typed
        /\ UNCHANGED <<agentState, toClient, gates, response, pc, suspended>>

\* mutant of EditTitle: the record is built anew around the typed title
EditTitleDropsRecord ==
    \E i \in DOMAIN gates, v \in Texts :
        /\ IsInstance(i, "confirm_content")
        /\ state' = [state EXCEPT
                       !.content_record = [InitialState.content_record
                                             EXCEPT !.title = v]]
        /\ Typed
        /\ UNCHANGED <<agentState, toClient, gates, response, pc, suspended>>

\* onChange of the title input
EditTitle ==
    \E i \in DOMAIN gates, v \in Texts :
        /\ IsInstance(i, "confirm_content")
        /\ state' = [state EXCEPT !.content_record.title = v]
        /\ Typed
        /\ UNCHANGED <<agentState, toClient, gates, response, pc, suspended>>

\* onChange of the summary textarea
EditSummary ==
    \E i \in DOMAIN gates, v \in Texts :
        /\ IsInstance(i, "confirm_content")
        /\ state' = [state EXCEPT !.content_record.summary = v]
        /\ Typed
        /\ UNCHANGED <<agentState, toClient, gates, response, pc, suspended>>

\* onChange of the content textarea
EditContent ==
    \E i \in DOMAIN gates, v \in Texts :
        /\ IsInstance(i, "confirm_content")
        /\ state' = [state EXCEPT !.content_record.content = v]
        /\ Typed
        /\ UNCHANGED <<agentState, toClient, gates, response, pc, suspended>>

\* onChange of the type select
EditType ==
    \E i \in DOMAIN gates, v \in Types :
        /\ IsInstance(i, "confirm_content")
        /\ state' = [state EXCEPT !.content_record.type = v]
        /\ Typed
        /\ UNCHANGED <<agentState, toClient, gates, response, pc, suspended>>

\* mutant of ClickEditMore: the button also discards the edited record
ClickEditMoreDiscards ==
    \E i \in DOMAIN gates :
        /\ IsInstance(i, "confirm_content")
        /\ ButtonEnabled(i)
        /\ state' = [state EXCEPT !.content_record = InitialState.content_record]
        /\ Respond(i, "CANCEL", -1)
        /\ UNCHANGED <<agentState, toClient, pc, suspended, edits>>

\* Edit More onClick: respond && respond("CANCEL")
\* mutant of ClickEditMoreAt: the handler carries the setState of the
\* Save & Publish button
ClickEditMoreSetsFlag(i) ==
    /\ IsInstance(i, "confirm_content")
    /\ ButtonEnabled(i)
    /\ state' = [state EXCEPT !.confirmed = TRUE]
    /\ Respond(i, "CANCEL", -1)
    /\ UNCHANGED <<agentState, toClient, pc, suspended, edits>>

\* Edit More onClick: respond && respond("CANCEL")
ClickEditMoreAt(i) ==
    /\ IsInstance(i, "confirm_content")
    /\ ButtonEnabled(i)
    /\ state' = state
    /\ Respond(i, "CANCEL", -1)
    /\ UNCHANGED <<agentState, toClient, pc, suspended, edits>>

ClickEditMore == \E i \in DOMAIN gates : ClickEditMoreAt(i)

\* mutant of ClickSavePublish: the button answers without writing the flag
ClickSavePublishNoFlag ==
    \E i \in DOMAIN gates :
        /\ IsInstance(i, "confirm_content")
        /\ ButtonEnabled(i)
        /\ state' = state
        /\ Respond(i, "CONFIRM", -1)
        /\ UNCHANGED <<agentState, toClient, pc, suspended, edits>>

\* Save & Publish onClick: setState({ ...state, copilotkit: { ...,
\* metadata: { ..., confirmed: true } } }); respond && respond("CONFIRM")
\* mutant of ClickSavePublishAt: the handler responds before it writes the
\* flag, so the response carries the document without it
ClickSavePublishRespondsFirst(i) ==
    /\ IsInstance(i, "confirm_content")
    /\ ButtonEnabled(i)
    /\ gates' = [gates EXCEPT ![i] = [@ EXCEPT !.status = "complete",
                                               !.value = "CONFIRM",
                                               !.responds = @ + 1]]
    /\ response' = [inst |-> i, value |-> "CONFIRM", topic_index |-> -1,
                    doc |-> state]
    /\ state' = [state EXCEPT !.confirmed = TRUE]
    /\ UNCHANGED <<agentState, toClient, pc, suspended, edits>>

ClickSavePublishAt(i) ==
    /\ IsInstance(i, "confirm_content")
    /\ ButtonEnabled(i)
    /\ state' = [state EXCEPT !.confirmed = TRUE]
    /\ Respond(i, "CONFIRM", -1)
    /\ UNCHANGED <<agentState, toClient, pc, suspended, edits>>

ClickSavePublish == \E i \in DOMAIN gates : ClickSavePublishAt(i)

----------------------------------------------------------------------------
(* Status display *)

\* renderStatus of page.tsx: what the banner shows
renderStatus(doc) ==
    IF doc.status # "" THEN [status |-> TRUE, error |-> FALSE]
    ELSE IF doc.error # "" THEN [status |-> FALSE, error |-> TRUE]
    ELSE [status |-> FALSE, error |-> FALSE]

\* the render of useCoAgentStateRender: what the chat shows
StateRender(doc) ==
    [status |-> doc.status # "", error |-> doc.error # ""]

----------------------------------------------------------------------------
(* The stream from the agent to the client *)

Snapshot(doc) == [type |-> "snapshot", name |-> "", doc |-> doc]
Open(name) == [type |-> "open", name |-> name, doc |-> InitialState]

\* a gate instance as the client renders it when the action is called; the
\* "inProgress" status of an instance whose arguments are still streaming
\* is not kept apart: like "complete" it disables the buttons and leaves
\* respond undefined
NewInstance(name) ==
    [name |-> name, status |-> "executing", value |-> NULL,
     topic_index |-> -1, responds |-> 0]

OpensInFlight == {k \in DOMAIN toClient : toClient[k].type = "open"}

\* mutant of Deliver: a snapshot is merged field by field, the client
\* keeping the repo_url it holds
DeliverMerges ==
    /\ toClient # <<>>
    /\ LET e == Head(toClient) IN
         IF e.type = "snapshot"
         THEN state' = [e.doc EXCEPT !.repo_url = state.repo_url] /\ gates' = gates
         ELSE state' = state /\ gates' = Append(gates, NewInstance(e.name))
    /\ toClient' = Tail(toClient)
    /\ UNCHANGED <<agentState, response, pc, suspended, edits>>

\* the client applies the next event of the stream: a snapshot replaces its
\* whole document, an open event renders a new instance of the gate
Deliver ==
    /\ toClient # <<>>
    /\ LET e == Head(toClient) IN
         IF e.type = "snapshot"
         THEN state' = e.doc /\ gates' = gates
         ELSE state' = state /\ gates' = Append(gates, NewInstance(e.name))
    /\ toClient' = Tail(toClient)
    /\ UNCHANGED <<agentState, response, pc, suspended, edits>>

----------------------------------------------------------------------------
(* The sequencer *)

\* the agent commits a document and sends it to the client
Commit(doc) ==
    /\ Len(toClient) < MaxInflight
    /\ agentState' = doc
    /\ toClient' = Append(toClient, Snapshot(doc))

\* mutant of AgentOpenGate: the sequencer opens the gate and runs on
AgentOpenGateRunsOn ==
    /\ pc \in GateNames
    /\ ~suspended
    /\ Len(toClient) < MaxInflight
    /\ Len(gates) + Cardinality(OpensInFlight) < MaxInstances
    /\ toClient' = Append(toClient, Open(pc))
    /\ suspended' = FALSE
    /\ UNCHANGED <<state, agentState, gates, response, pc, edits>>

\* the sequencer opens the gate of its stage and suspends
AgentOpenGate ==
    /\ pc \in GateNames
    /\ ~suspended
    /\ Len(toClient) < MaxInflight
    /\ Len(gates) + Cardinality(OpensInFlight) < MaxInstances
    /\ toClient' = Append(toClient, Open(pc))
    /\ suspended' = TRUE
    /\ UNCHANGED <<state, agentState, gates, response, pc, edits>>

ValidIndex(doc, idx) == 0 <= idx /\ idx < Len(doc.topics)

\* the document and the stage after the gate `name` resolved with response r;
\* the agent takes the client's document as the response carries it and
\* commits the gate's field from the response value
Resumed(name, r) ==
    CASE name = "set_github_repo" ->
           IF r.value # ""
           THEN [doc |-> [r.doc EXCEPT !.repo_url = r.value, !.status = ""],
                 pc |-> "set_date_range"]
           ELSE [doc |-> r.doc, pc |-> "set_github_repo"]
      [] name = "set_date_range" ->
           IF r.value # ""
           THEN [doc |-> [r.doc EXCEPT !.start_date = r.value,
                                       !.status = "Analyzing repository"],
                 pc |-> "analysis"]
           ELSE [doc |-> r.doc, pc |-> "set_date_range"]
      [] name = "select_topic" ->
           IF ValidIndex(r.doc, r.topic_index)
           THEN [doc |-> [r.doc EXCEPT !.selected_topic = TopicAt(r.doc, r.topic_index),
                                       !.status = "Generating content"],
                 pc |-> "drafting"]
           ELSE [doc |-> [r.doc EXCEPT !.selected_topic = agentState.selected_topic,
                                       !.status = "StaleResponseError"],
                 pc |-> "select_topic"]
      [] name = "confirm_content" ->
           IF r.value = "CONFIRM"
           THEN [doc |-> [r.doc EXCEPT !.confirmed = TRUE, !.status = "Publishing"],
                 pc |-> "persist"]
           ELSE [doc |-> r.doc, pc |-> "confirm_content"]

\* the response arrives and the sequencer resumes
AgentResume ==
    /\ suspended
    /\ response # NoResponse
    /\ LET next == Resumed(gates[response.inst].name, response) IN
         /\ Commit(next.doc)
         /\ pc' = next.pc
    /\ suspended' = FALSE
    /\ response' = NoResponse
    /\ UNCHANGED <<state, gates, edits>>

\* mutant of Failed: error is set and the failed step is tried again
FailedRetries(msg, cleared) ==
    /\ Commit([agentState EXCEPT !.error = msg,
                                 !.status = IF cleared THEN "" ELSE @])
    /\ pc' = pc

\* an external collaborator failed: error is set and the sequencer halts;
\* the status of the failed step stays unless the caller cleared it
Failed(msg, cleared) ==
    /\ Commit([agentState EXCEPT !.error = msg,
                                 !.status = IF cleared THEN "" ELSE @])
    /\ pc' = "halted"

\* repository analysis (external): topics, or an AnalysisError
AgentAnalysis ==
    /\ pc = "analysis"
    /\ \/ \E tl \in TopicLists :
            /\ Commit([agentState EXCEPT !.topics = tl, !.status = ""])
            /\ pc' = "select_topic"
       \/ \E cleared \in BOOLEAN : Failed("AnalysisError", cleared)
    /\ UNCHANGED <<state, gates, response, suspended, edits>>

Drafts == [blog_post |-> "text", code_example |-> "text", social_media |-> "text"]

\* content generation (external): the drafts and an initial record
AgentDraft ==
    /\ pc = "drafting"
    /\ \/ \E t \in Types \ {""} :
            /\ Commit([agentState EXCEPT
                          !.content_drafts = Drafts,
                          !.content_record = [channel |-> "", title |-> "text",
                                              summary |-> "text",
                                              content |-> Drafts[t], type |-> t],
                          !.status = ""])
            /\ pc' = "confirm_content"
       \/ \E cleared \in BOOLEAN : Failed("GenerationError", cleared)
    /\ UNCHANGED <<state, gates, response, suspended, edits>>

\* persistence (external), after a "CONFIRM"
AgentPersist ==
    /\ pc = "persist"
    /\ \/ /\ Commit([agentState EXCEPT !.status = "Published"])
          /\ pc' = "done"
       \/ \E cleared \in BOOLEAN : Failed("PersistenceError", cleared)
    /\ UNCHANGED <<state, gates, response, suspended, edits>>

\* an external abort of the session: a pending gate is cancelled, and
\* neither an unopened gate nor a response on its way reaches anyone
Abort ==
    /\ pc \notin {"done", "halted", "aborted"}
    /\ gates' = [i \in DOMAIN gates |->
                   IF gates[i].status = "executing"
                   THEN [gates[i] EXCEPT !.status = "cancelled"]
                   ELSE gates[i]]
    /\ toClient' = SelectSeq(toClient, LAMBDA e : e.type # "open")
    /\ response' = NoResponse
    /\ pc' = "aborted"
    /\ suspended' = FALSE
    /\ UNCHANGED <<state, agentState, edits>>

----------------------------------------------------------------------------

Next ==
    \/ EditRepoUrl
    \/ SubmitRepo
    \/ EditStartDate
    \/ SubmitDate
    \/ ClickTopic
    \/ EditChannel
    \/ EditTitle
    \/ EditSummary
    \/ EditContent
    \/ EditType
    \/ ClickEditMore
    \/ ClickSavePublish
    \/ Deliver
    \/ AgentOpenGate
    \/ AgentResume
    \/ AgentAnalysis
    \/ AgentDraft
    \/ AgentPersist
    \/ Abort

Spec == Init /\ [][Next]_vars

----------------------------------------------------------------------------
(* The gate protocol *)

\* the instances the human can answer
Pending == {i \in DOMAIN gates : gates[i].status = "executing"}

Terminal(i) == gates[i].status \in {"complete", "cancelled"}

\* instance i is resolved by this step
Resolves(i) == gates[i].status = "executing" /\ gates'[i].status = "complete"

\* C1: in every reachable state at most one gate is pending, counting the
\* gates the agent has opened and the client has not rendered yet.
C1_AtMostOnePending == Cardinality(Pending) + Cardinality(OpensInFlight) <= 1

\* a gate is pending while an earlier one, resolved, is still in the chat
C1_Witness ==
    \E i, j \in DOMAIN gates :
        /\ i < j
        /\ gates[i].status = "complete"
        /\ gates[j].status = "executing"
        /\ gates[i].name # gates[j].name

\* C2: a response event on a gate instance that is resolved or cancelled
\* leaves the client's document unchanged.  The buttons of such an
\* instance are disabled, so the topic cards are the response controls
\* that still take events.
C2_TerminalRespondInert ==
    [][\A i \in DOMAIN gates : \A idx \in RenderedIndexes :
          (Terminal(i) /\ ClickTopicAt(i, idx)) => state' = state]_vars

\* C3: when select_topic resolves with index k, the client's selected_topic
\* is afterwards the k-th topic (from 0) of its topics, whatever was
\* selected before; and the agent, resuming, commits that same topic.
C3_SelectedIsIndexed ==
    [][/\ \A i \in DOMAIN gates :
            (Resolves(i) /\ gates[i].name = "select_topic")
            => LET k == gates'[i].topic_index IN
                 (0 <= k /\ k < Len(state'.topics))
                 => state'.selected_topic = state'.topics[k + 1]
       /\ (/\ response # NoResponse
           /\ gates[response.inst].name = "select_topic"
           /\ pc' = "drafting")
          => agentState'.selected_topic
               = agentState'.topics[response.topic_index + 1]]_vars

\* the second card of a two-topic list was clicked and the gate resolved
\* with index 1
C3_Witness ==
    \E i \in DOMAIN gates :
        /\ gates[i].name = "select_topic"
        /\ gates[i].status = "complete"
        /\ gates[i].topic_index = 1
        /\ Len(state.topics) = 2
        /\ state.selected_topic = state.topics[2]
        /\ response.inst = i
        /\ agentState.selected_topic = NULL


\* C4 (no formula): no response with an index out of range is reachable.
\* The cards are rendered from state.topics, so a click sends an index of
\* that list, and the same document travels with the response.

\* C5: "CONFIRM" sets the confirmation flag, and a flag that is set stays
\* set on both sides through every later step: a snapshot, an edit, a
\* response.  So it is set by at most one step on each side.
C5_ConfirmedIsFinal ==
    [][/\ \A i \in DOMAIN gates :
            (Resolves(i) /\ gates'[i].value = "CONFIRM") => state'.confirmed
       /\ state.confirmed => state'.confirmed
       /\ agentState.confirmed => agentState'.confirmed]_vars

\* the flag is set, the agent has published, a snapshot has been applied
\* and the human has typed since
C5_Witness ==
    /\ state.confirmed
    /\ pc = "done"
    /\ toClient = <<>>
    /\ state.status = "Published"
    /\ state.content_record # agentState.content_record

\* C6: "CANCEL" does not change content_record and does not advance the
\* workflow: the sequencer stays at confirm_content, the next gate opened
\* is confirm_content again, and the record can be edited before and after.
C6_CancelReopens ==
    [][/\ \A i \in DOMAIN gates :
            (Resolves(i) /\ gates'[i].value = "CANCEL")
            => /\ state' = state
               /\ response'.doc.content_record = state.content_record
       /\ (response.value = "CANCEL" /\ response' = NoResponse /\ pc' # "aborted")
          => /\ pc' = "confirm_content"
             /\ agentState'.content_record = response.doc.content_record
       /\ \A i \in DOMAIN gates' :
            (i > 1 /\ gates'[i - 1].value = "CANCEL")
            => gates'[i].name = "confirm_content"]_vars

\* after a "CANCEL" the gate is pending again and the human has edited the
\* record in the new instance
C6_Witness ==
    \E i \in DOMAIN gates :
        /\ i > 1
        /\ gates[i - 1].value = "CANCEL"
        /\ gates[i].name = "confirm_content"
        /\ gates[i].status = "executing"
        /\ toClient = <<>>
        /\ state.content_record # agentState.content_record


\* the client applies a snapshot in this step
AppliesSnapshot ==
    /\ toClient # <<>>
    /\ Head(toClient).type = "snapshot"
    /\ toClient' = Tail(toClient)

\* the agent resumes from a response in this step
Resumes == response # NoResponse /\ response' = NoResponse /\ pc' # "aborted"

C8_ErrorSuppressesStatus ==
    state.error # ""
    => /\ renderStatus(state).error
       /\ ~renderStatus(state).status
       /\ StateRender(state).error
       /\ ~StateRender(state).status

\* C9: respond is called at most once for every gate instance.
C9_RespondAtMostOnce == \A i \in DOMAIN gates : gates[i].responds <= 1

\* select_topic was answered with one card and another card was clicked
\* afterwards: the selection moved, and respond was not called again
C9_Witness ==
    \E i \in DOMAIN gates :
        /\ gates[i].name = "select_topic"
        /\ gates[i].status = "complete"
        /\ gates[i].responds = 1
        /\ state.selected_topic # NULL
        /\ state.selected_topic # TopicAt(state, gates[i].topic_index)

\* C10: the value that resolves set_github_repo is the repo_url of the
\* client's document, the agent commits exactly that value, and topics
\* is empty on both sides at that point.
C10_RepoUrlCommitted ==
    [][/\ \A i \in DOMAIN gates :
            (Resolves(i) /\ gates[i].name = "set_github_repo")
            => /\ state'.repo_url = gates'[i].value
               /\ response'.doc.repo_url = gates'[i].value
               /\ state'.topics = <<>>
       /\ (Resumes /\ gates[response.inst].name = "set_github_repo")
          => /\ agentState'.repo_url = response.value
             /\ agentState'.topics = <<>>]_vars

\* the agent has committed the URL the human submitted, and nothing else
\* has happened yet
C10_Witness ==
    /\ Len(gates) = 1
    /\ gates[1].status = "complete"
    /\ gates[1].value = "https://github.com/acme/widget"
    /\ agentState.repo_url = "https://github.com/acme/widget"
    /\ pc = "set_date_range"
    /\ agentState.topics = <<>>


\* a response control of instance i takes an event in this step: one of
\* its buttons is clicked, or one of its topic cards
RespondsOn(i) ==
    \/ SubmitRepoAt(i)
    \/ SubmitDateAt(i)
    \/ ClickEditMoreAt(i)
    \/ ClickSavePublishAt(i)
    \/ \E idx \in RenderedIndexes : ClickTopicAt(i, idx)

Confirmed == \E i \in DOMAIN gates : gates[i].value = "CONFIRM"

\* C12: the confirmation flag is true, on either side or in a snapshot in
\* flight, only if a gate was answered "CONFIRM", which only the Save &
\* Publish button does.
C12_FlagOnlyByConfirm ==
    /\ state.confirmed => Confirmed
    /\ agentState.confirmed => Confirmed
    /\ \A k \in DOMAIN toClient : toClient[k].doc.confirmed => Confirmed
    /\ \A i \in DOMAIN gates :
         gates[i].value = "CONFIRM" => gates[i].name = "confirm_content"

\* the human has edited the record, answered "CANCEL" once and then
\* "CONFIRM": the flag is set
C12_Witness ==
    /\ state.confirmed
    /\ \E i \in DOMAIN gates : gates[i].value = "CANCEL"
    /\ edits = MaxEdits

\* C13: a "CONFIRM" on its way to the agent carries a document whose flag
\* is set, and the sequencer is at the persistence step only with the flag
\* set in its document.
C13_PersistAfterFlag ==
    /\ response.value = "CONFIRM" => response.doc.confirmed
    /\ pc = "persist" => agentState.confirmed

\* the agent has resumed from "CONFIRM" and is about to persist
C13_Witness ==
    /\ pc = "persist"
    /\ agentState.confirmed
    /\ response = NoResponse

\* C14: an instance enters the chat pending, moves at most once, to
\* resolved or to cancelled, and is frozen from then on; instances are
\* never removed.
C14_GateLifecycle ==
    [][/\ Len(gates') >= Len(gates)
       /\ \A i \in DOMAIN gates :
            /\ gates'[i].name = gates[i].name
            /\ Terminal(i) => gates'[i] = gates[i]
            /\ gates[i].status = "executing"
               => gates'[i].status \in {"executing", "complete", "cancelled"}
       /\ \A i \in DOMAIN gates' :
            i > Len(gates) => gates'[i] = NewInstance(gates'[i].name)]_vars

\* select_topic was cancelled by an abort and one of its cards was clicked
\* afterwards: the instance is still cancelled
C14_Witness ==
    \E i \in DOMAIN gates :
        /\ gates[i].name = "select_topic"
        /\ gates[i].status = "cancelled"
        /\ state.selected_topic # NULL


\* gate `name` has resolved with a value: its field is committed
Committed(name) ==
    \E i \in DOMAIN gates :
        /\ gates[i].name = name
        /\ gates[i].status = "complete"
        /\ gates[i].value # ""

\* C15: a committed field is not reverted by a later write of either side.
\* Stated for the oldest value, the empty one the field had when the
\* session began: once repo_url, start_date, topics or selected_topic is
\* committed, no step of the client or of the agent empties it again.
C15_CommittedNotReverted ==
    [][/\ (Committed("set_github_repo") /\ state.repo_url # "")
          => state'.repo_url # ""
       /\ (Committed("set_date_range") /\ state.start_date # "")
          => state'.start_date # ""
       /\ agentState.repo_url # "" => agentState'.repo_url # ""
       /\ agentState.start_date # "" => agentState'.start_date # ""
       /\ agentState.topics # <<>> => agentState'.topics = agentState.topics
       /\ agentState.selected_topic # NULL
          => agentState'.selected_topic = agentState.selected_topic]_vars


\* the selection of a document is empty or an element of its topic list
SelectionListed(doc) ==
    \/ doc.selected_topic = NULL
    \/ \E k \in DOMAIN doc.topics : doc.topics[k] = doc.selected_topic

\* C16: in every reachable state selectedTopic is null or an element of
\* the topics of the same Session State, on the client, on the agent, in
\* every snapshot in flight and in the document a response carries.
C16_SelectedFromTopics ==
    /\ SelectionListed(state)
    /\ SelectionListed(agentState)
    /\ SelectionListed(response.doc)
    /\ \A k \in DOMAIN toClient : SelectionListed(toClient[k].doc)

\* a topic of a one-element list was selected and committed by the agent
C16_Witness ==
    /\ agentState.topics = <<"T0">>
    /\ agentState.selected_topic = "T0"
    /\ state.selected_topic = "T0"
    /\ pc = "confirm_content"


\* C17: set_github_repo resolves only for a non-empty string: no instance
\* of it is complete with the empty value, and the workflow advances to
\* set_date_range only with a non-empty repositoryUrl committed.
C17_RepoResolvesNonEmpty ==
    /\ [](\A i \in DOMAIN gates :
            (gates[i].name = "set_github_repo" /\ gates[i].status = "complete")
            => gates[i].value # "")
    /\ [][(pc = "set_github_repo" /\ pc' = "set_date_range")
            => agentState'.repo_url # ""]_vars


\* the three fixed kinds of content
Kinds == Types \ {""}

\* C18: wherever "CONFIRM" has been responded, contentRecord.type is one
\* of the three fixed kinds: in the document the response carries and in
\* the record the agent persists and publishes.
C18_ConfirmedTypeIsKind ==
    /\ response.value = "CONFIRM" => response.doc.content_record.type \in Kinds
    /\ pc \in {"persist", "done"} => agentState.content_record.type \in Kinds


\* C19: once an external step has failed, error is set, the sequencer is
\* halted, and no gate is pending or on its way to the client; a
\* select_topic gate exists only with topics produced and a
\* confirm_content gate only with the drafts generated.
C19_FailStop ==
    /\ agentState.error # ""
          => /\ pc = "halted"
             /\ Pending = {}
             /\ OpensInFlight = {}
    /\ pc = "halted" => agentState.error # ""
    /\ \A i \in DOMAIN gates :
          /\ gates[i].name = "select_topic" => agentState.topics # <<>>
          /\ gates[i].name = "confirm_content" => agentState.content_drafts = Drafts

\* draft generation failed after a topic was chosen, and the client has
\* the error; no confirm_content form was ever rendered
C19_Witness ==
    /\ agentState.error = "GenerationError"
    /\ state.error = "GenerationError"
    /\ toClient = <<>>
    /\ \E i \in DOMAIN gates :
          gates[i].name = "select_topic" /\ gates[i].status = "complete"
    /\ \A i \in DOMAIN gates : gates[i].name # "confirm_content"


\* C20: the document a topic click wrote and the index it passed to
\* respond agree: while the response of a select_topic instance is on its
\* way, the index is within the topics of the document it carries and
\* that document's selected_topic is the topic at that index.
C20_ClickIndexAgrees ==
    (response.inst # 0 /\ gates[response.inst].name = "select_topic")
    => /\ ValidIndex(response.doc, response.topic_index)
       /\ response.doc.selected_topic
            = response.doc.topics[response.topic_index + 1]

\* the first card of a two-topic list was clicked; the response is on
\* its way with index 0 and the agent has not committed a topic yet
C20_Witness ==
    /\ response.inst # 0
    /\ gates[response.inst].name = "select_topic"
    /\ response.topic_index = 0
    /\ Len(response.doc.topics) = 2
    /\ response.doc.selected_topic = "T1"
    /\ agentState.selected_topic = NULL


\* the step leaves every field of the document but `f` as it was
OnlyField(f) == \A g \in DOMAIN state \ {f} : state'[g] = state[g]

\* the step leaves every field of the document but content_record.f as it was
OnlyRecordField(f) ==
    /\ OnlyField("content_record")
    /\ \A g \in DOMAIN state.content_record \ {f} :
          state'.content_record[g] = state.content_record[g]

\* the step resolves no instance and sends no response
NoRespond == gates' = gates /\ response' = response

\* C21: a form edit changes only the field of its input: repo_url,
\* start_date, or one field of content_record; every other field of the
\* client's Session State is carried over, and the edit does not respond.
C21_EditFrame ==
    [][/\ EditRepoUrl => (OnlyField("repo_url") /\ NoRespond)
       /\ EditStartDate => (OnlyField("start_date") /\ NoRespond)
       /\ EditChannel => (OnlyRecordField("channel") /\ NoRespond)
       /\ EditTitle => (OnlyRecordField("title") /\ NoRespond)
       /\ EditSummary => (OnlyRecordField("summary") /\ NoRespond)
       /\ EditContent => (OnlyRecordField("content") /\ NoRespond)
       /\ EditType => (OnlyRecordField("type") /\ NoRespond)]_vars

\* the title was cleared in the pending confirm_content form while the
\* rest of the generated record, the drafts and the selection are kept
C21_Witness ==
    /\ state.content_record.title = ""
    /\ state.content_record.summary = "text"
    /\ state.content_record.content = "text"
    /\ state.content_record.type \in Kinds
    /\ state.content_drafts = Drafts
    /\ state.selected_topic # NULL
    /\ state.repo_url # ""
    /\ response = NoResponse
    /\ \E i \in DOMAIN gates :
          gates[i].name = "confirm_content" /\ gates[i].status = "executing"

============================================================================
